---- MODULE Spec2Model ----
(***************************************************************************)
(* Model of SimEngine/SimEngine.py: the discrete-event engine singleton,   *)
(* its event queue, the run-loop thread and the controller threads that    *)
(* call its public methods.                                                *)
(*                                                                         *)
(* Three specifications share the state and the run loop:                  *)
(*   Spec     a constructed engine used by the controller threads of Ctl   *)
(*            concurrently with the run loop; a call is split where the    *)
(*            code releases dataLock or reads shared state without it;     *)
(*   SeqSpec  a constructed engine whose public methods are called by one  *)
(*            caller at a time and run to completion (one action per       *)
(*            call), between the steps of the run loop;                    *)
(*   LifeSpec the life of the process from before the first construction:  *)
(*            construction, destruction and calls that run to completion.  *)
(***************************************************************************)
EXTENDS Integers, Sequences, FiniteSets, TLC

\* ------------------------------------------------------------------ bounds
MaxAsn    == 3      \* times passed to the scheduling calls are in 0..MaxAsn
MaxEvents == 3      \* scheduling calls accepted per instance when calls run to completion
MaxCtlCalls == 2    \* scheduling calls accepted per instance from the controller threads
MaxLifeCalls == 1   \* scheduling calls accepted per instance between construction and destruction
MaxHooks  == 1      \* hooks registered per list
MaxGen    == 2      \* full initialisations of the singleton per process

\* ------------------------------------------------- configuration (settings)
TotalSlots   == MaxAsn  \* settings.slotframeLength * settings.exec_numSlotframesPerRun
slotDuration == 2       \* settings.slotDuration, in ticks; delays are in ticks

Ctl        == {"c1", "c2"}
Priorities == {0, 1}
Hooks      == {1, 2}
Delays     == {1, 2, 3}

\* uniqueTag values.  Python tags are None or a tuple (owner, name).
NoTag    == <<>>
EndTag   == <<"None", "_actionEndSim">>
PauseTag == <<"SimEngine", "_actionPauseSim">>
UserTags == {<<"mote", "t1">>}
Tags     == {NoTag} \cup UserTags

VARIABLES
    instance,        \* cls._instance holds an object
    initFlag,        \* the object's own _init attribute is set (its __dict__ is populated)
    secjoin_enabled, \* self.settings.secjoin_enabled
    asn,             \* self.asn
    events,          \* self.events
    simPaused,       \* self.simPaused
    goOn,            \* self.goOn
    startCb,         \* self.startCb
    endCb,           \* self.endCb
    pauseSem,        \* value of self.pauseSem
    lockOwner,       \* holder of self.dataLock: "none" or "run"
    rpc,             \* position of the run-loop thread
    rerr,            \* exception that ended the run-loop thread
    cpc,             \* position of each controller thread inside its call
    carg,            \* arguments of each controller thread's call in progress
    nsched,          \* history: number of events inserted into this instance
    quota,           \* scheduling calls the collaborators may still make on this instance
    dispatched,      \* history: the events invoked by the run loop, with the clock
    invoked,         \* history: the hooks invoked by run()
    pauseAccepted,   \* history: least A of the pauseAtAsn(A) calls returned since the last play(), or -1
    lastCall,        \* history: the last call of SeqSpec's caller and how it ended
    generation,      \* history: number of full initialisations so far
    destroyed        \* history: the instance destroy() was last called on had no field at its initial value

classVars  == <<instance, initFlag>>
engineVars == <<secjoin_enabled, asn, events, simPaused, goOn, startCb, endCb, pauseSem>>
runVars    == <<lockOwner, rpc, rerr>>
ctlVars    == <<cpc, carg>>
histVars   == <<nsched, quota, dispatched, invoked, pauseAccepted, lastCall, generation,
               destroyed>>
vars       == <<classVars, engineVars, runVars, ctlVars, histVars>>

\* ------------------------------------------------------------ the event queue

Event(a, p, cb, tag, k) ==
    [asn |-> a, priority |-> p, cb |-> cb, uniqueTag |-> tag, kwargs |-> k]

\* self.events.pop(i), 1-based.
Pop(evs, i) == SubSeq(evs, 1, i - 1) \o SubSeq(evs, i + 1, Len(evs))

\* removeEvent's loop from index i (1-based): an event with the tag is popped
\* and the index stays, unless exceptCurrentASN and the event is at the current
\* ASN; otherwise the index advances.
RECURSIVE RemoveEventLoop(_, _, _, _, _)
RemoveEventLoop(evs, i, uniqueTag, exceptCurrentASN, now) ==
    IF i <= Len(evs)
    THEN IF evs[i].uniqueTag = uniqueTag /\ ~(exceptCurrentASN /\ evs[i].asn = now)
         THEN RemoveEventLoop(Pop(evs, i), i, uniqueTag, exceptCurrentASN, now)
         ELSE RemoveEventLoop(evs, i + 1, uniqueTag, exceptCurrentASN, now)
    ELSE evs

\* Mutant of RemoveEvent: exceptCurrentASN is ignored.
RemoveEventAlways(evs, uniqueTag, exceptCurrentASN, now) ==
    RemoveEventLoop(evs, 1, uniqueTag, FALSE, now)

\* removeEvent(uniqueTag, exceptCurrentASN) on the queue evs at the ASN now.
RemoveEvent(evs, uniqueTag, exceptCurrentASN, now) ==
    RemoveEventLoop(evs, 1, uniqueTag, exceptCurrentASN, now)

\* Mutant of FindIndex: the priority test is strict, so the new event goes
\* before the pending events of its own time and priority.
RECURSIVE FindIndexStrict(_, _, _, _)
FindIndexStrict(evs, i, a, p) ==
    IF i <= Len(evs) /\ (evs[i].asn < a \/ (evs[i].asn = a /\ evs[i].priority < p))
    THEN FindIndexStrict(evs, i + 1, a, p)
    ELSE i

\* scheduleAtAsn's search loop (1-based): the first index whose event is later,
\* or is at the same time with a greater priority.
RECURSIVE FindIndex(_, _, _, _)
FindIndex(evs, i, a, p) ==
    IF i <= Len(evs) /\ (evs[i].asn < a \/ (evs[i].asn = a /\ evs[i].priority <= p))
    THEN FindIndex(evs, i + 1, a, p)
    ELSE i

\* self.events.insert(i, event)
InsertEvent(evs, e) ==
    LET i == FindIndex(evs, 1, e.asn, e.priority)
    IN  SubSeq(evs, 1, i - 1) \o <<e>> \o SubSeq(evs, i, Len(evs))

\* Mutant of PassesAssert: the present is accepted as well.
PassesAssertOrEqual(a, now) == a >= now

\* assert asn > self.asn
PassesAssert(a, now) == a > now

\* scheduleAtAsn once its assertion has passed: the removal of the tag's
\* events, then the ordered insert.
ScheduleAtAsn(evs, now, a, p, cb, tag, exceptCurrentASN, k) ==
    InsertEvent(IF tag # NoTag THEN RemoveEvent(evs, tag, exceptCurrentASN, now) ELSE evs,
                Event(a, p, cb, tag, k))

\* int(x) of Python: truncation towards zero.
TruncDiv(n, d) == IF n >= 0 THEN n \div d ELSE -((-n) \div d)

\* scheduleIn: asn = int(self.asn + float(delay) / float(slotDuration))
AsnOfDelay(now, delay) == TruncDiv(now * slotDuration + delay, slotDuration)

\* ------------------------------------------------------------ calls

\* A call of a public method, with the defaults of the Python signature.
Call(op, a, d, p, tag, exc) ==
    [op |-> op, asn |-> a, delay |-> d, priority |-> p, uniqueTag |-> tag,
     exceptCurrentASN |-> exc]

NoCall == Call("none", 0, 0, 0, NoTag, TRUE)

ExceptChoices(tag) == IF tag = NoTag THEN {TRUE} ELSE BOOLEAN

ScheduleAtAsnCalls ==
    {Call("scheduleAtAsn", a, 0, p, tag, exc) :
        a \in 0..MaxAsn, p \in Priorities, tag \in Tags, exc \in BOOLEAN}

ScheduleInCalls ==
    {Call("scheduleIn", 0, d, 0, tag, TRUE) : d \in Delays, tag \in Tags}

RemoveEventCalls ==
    {Call("removeEvent", 0, 0, 0, tag, exc) : tag \in UserTags, exc \in BOOLEAN}

TerminateCalls ==
    {Call("terminateSimulation", 0, d, 0, EndTag, TRUE) : d \in 0..2}

PauseCalls ==
    {Call("pauseAtAsn", a, 0, 0, PauseTag, TRUE) : a \in 0..MaxAsn}

\* What the callback of a collaborator's event does when it is invoked.
CallbackCalls ==
    {NoCall} \cup {c \in ScheduleAtAsnCalls : c.exceptCurrentASN \in ExceptChoices(c.uniqueTag)}
             \cup RemoveEventCalls \cup TerminateCalls

\* The callback an engine method schedules for a call.
CallbackOf(call) ==
    CASE call.op = "terminateSimulation" -> "_actionEndSim"
      [] call.op = "pauseAtAsn"          -> "_actionPauseSim"
      [] OTHER                           -> "cb"

\* The ASN a call asks scheduleAtAsn for, at clock `now`.
TargetAsn(call, now) ==
    CASE call.op = "scheduleIn"          -> AsnOfDelay(now, call.delay)
      [] call.op = "terminateSimulation" -> now + call.delay
      [] OTHER                           -> call.asn

\* The queue after a scheduling call that passed its assertion.
Scheduled(evs, now, call, k) ==
    ScheduleAtAsn(evs, now, TargetAsn(call, now), call.priority, CallbackOf(call),
                  call.uniqueTag, call.exceptCurrentASN, k)

\* ------------------------------------------------------------ singleton

\* Mutant of AlreadyInit: the class attribute _init, which nothing ever sets,
\* is read instead of the instance's.
AlreadyInitClass == FALSE

\* __init__: "if self._init: return"
AlreadyInit == initFlag

\* Mutant of RaisesNotInit: the slot is tested instead of _init.
RaisesNotInitSlot(failIfNotInit) == failIfNotInit /\ ~instance'

\* __init__: "if failIfNotInit and not self._init: raise EnvironmentError"
RaisesNotInit(failIfNotInit) == failIfNotInit /\ ~initFlag

\* Mutant of InitAfterDestroy: destroy() leaves the instance's attributes.
InitAfterDestroyKept == initFlag

\* destroy(): "self._init = False; del self.__dict__" leaves the instance
\* without an _init of its own, so the class's False is read.
InitAfterDestroy == FALSE

\* How a call ended: future tells whether the ASN it asked for was after the clock.
Returned(op, future, err) == [op |-> op, future |-> future, err |-> err]

ConstructOp(failIfNotInit) ==
    IF failIfNotInit THEN "SimEngine(failIfNotInit=True)" ELSE "SimEngine()"

\* destroy() finds an instance none of whose fields has its initial value: the
\* Clock is past 0, events are pending, hooks are registered, and the engine is
\* paused or its goOn is false.
Held ==
    /\ asn > 0
    /\ events # <<>>
    /\ startCb # <<>> \/ endCb # <<>>
    /\ simPaused \/ ~goOn

NothingHeld == FALSE

InitProc ==
    /\ instance = FALSE
    /\ initFlag = FALSE
    /\ secjoin_enabled = FALSE
    /\ asn = 0
    /\ events = <<>>
    /\ simPaused = FALSE
    /\ goOn = FALSE
    /\ startCb = <<>>
    /\ endCb = <<>>
    /\ pauseSem = 0
    /\ lockOwner = "none"
    /\ rpc = "idle"
    /\ rerr = "none"
    /\ cpc = [c \in Ctl |-> "idle"]
    /\ carg = [c \in Ctl |-> NoCall]
    /\ nsched = 0
    /\ quota = 0
    /\ dispatched = <<>>
    /\ invoked = <<>>
    /\ pauseAccepted = -1
    /\ lastCall = Returned("none", TRUE, "none")
    /\ generation = 0
    /\ destroyed = NothingHeld

\* The process once SimEngine() has been called for the first time.
Constructed(calls) ==
    /\ quota = calls
    /\ instance = TRUE
    /\ initFlag = TRUE
    /\ secjoin_enabled \in BOOLEAN
    /\ asn = 0
    /\ events = <<>>
    /\ simPaused = FALSE
    /\ goOn = TRUE
    /\ startCb = <<>>
    /\ endCb = <<>>
    /\ pauseSem = 0
    /\ lockOwner = "none"
    /\ rpc = "idle"
    /\ rerr = "none"
    /\ cpc = [c \in Ctl |-> "idle"]
    /\ carg = [c \in Ctl |-> NoCall]
    /\ nsched = 0
    /\ dispatched = <<>>
    /\ invoked = <<>>
    /\ pauseAccepted = -1
    /\ lastCall = Returned(ConstructOp(FALSE), TRUE, "none")
    /\ generation = 1
    /\ destroyed = NothingHeld

Init == Constructed(MaxCtlCalls)

InitSeq == Constructed(MaxEvents)

\* __init__ past the singleton test: the local variables, the collaborators,
\* the motes' boot and Thread.__init__.
FullInit ==
    /\ initFlag' = TRUE
    /\ secjoin_enabled' \in BOOLEAN
    /\ asn' = 0
    /\ events' = <<>>
    /\ simPaused' = FALSE
    /\ goOn' = TRUE
    /\ startCb' = <<>>
    /\ endCb' = <<>>
    /\ pauseSem' = 0
    /\ lockOwner' = "none"
    /\ rpc' = "idle"
    /\ rerr' = "none"
    /\ nsched' = 0
    /\ quota' = MaxLifeCalls
    /\ dispatched' = <<>>
    /\ invoked' = <<>>
    /\ pauseAccepted' = -1
    /\ generation' = generation + 1

\* SimEngine(failIfNotInit=...): __new__ then __init__.
Construct(failIfNotInit) ==
    /\ instance' = TRUE
    /\ UNCHANGED ctlVars
    /\ IF RaisesNotInit(failIfNotInit)
       THEN /\ lastCall' = Returned(ConstructOp(failIfNotInit), TRUE, "EnvironmentError")
            /\ UNCHANGED <<initFlag, engineVars, runVars, nsched, quota, dispatched, invoked,
                           pauseAccepted, generation, destroyed>>
       ELSE IF AlreadyInit
       THEN /\ lastCall' = Returned(ConstructOp(failIfNotInit), TRUE, "none")
            /\ UNCHANGED <<initFlag, engineVars, runVars, nsched, quota, dispatched, invoked,
                           pauseAccepted, generation, destroyed>>
       ELSE /\ generation < MaxGen
            /\ lastCall' = Returned(ConstructOp(failIfNotInit), TRUE, "none")
            /\ FullInit
            /\ UNCHANGED destroyed

\* destroy().  It is called while no other call is in progress and the run-loop
\* thread is not executing: not started, ended, or blocked in pauseSem.acquire()
\* (the semaphore it waits on then becomes unreachable).  The attribute values
\* are kept in the variables but nothing reads them until __init__ sets them.
Destroy ==
    /\ initFlag
    /\ \A c \in Ctl : cpc[c] = "idle"
    /\ \/ rpc \in {"idle", "done", "crashed"}
       \/ rpc = "acquire" /\ pauseSem = 0
    /\ initFlag' = InitAfterDestroy
    /\ rpc' = IF rpc = "acquire" THEN "orphaned" ELSE rpc
    /\ lastCall' = Returned("destroy", TRUE, "none")
    /\ destroyed' = Held
    /\ UNCHANGED <<instance, engineVars, lockOwner, rerr, ctlVars, nsched, quota, dispatched,
                   invoked, pauseAccepted, generation>>

\* ------------------------------------------------------------ run loop

HookRecord(phase, h) == [phase |-> phase, hook |-> h, after |-> Len(dispatched)]

HooksCalled(phase, cbs) == [i \in 1..Len(cbs) |-> HookRecord(phase, cbs[i])]

Dispatched(e) ==
    [asn |-> e.asn, priority |-> e.priority, cb |-> e.cb, uniqueTag |-> e.uniqueTag,
     kwargs |-> e.kwargs, clock |-> asn]

\* The thread dies of an exception; leaving the "with" block releases dataLock.
Crash(err) ==
    /\ rpc' = "crashed"
    /\ rerr' = err
    /\ lockOwner' = "none"

\* Thread.start(): run() up to the removal of the pending end-of-simulation
\* event by scheduleAtAsn.
RunStart ==
    /\ initFlag
    /\ rpc = "idle"
    /\ lockOwner = "none"
    /\ IF secjoin_enabled
       THEN /\ rpc' = "startcb"
            /\ UNCHANGED <<events, rerr, lockOwner>>
       ELSE IF PassesAssert(TotalSlots, asn)
       THEN /\ events' = RemoveEvent(events, EndTag, TRUE, asn)
            /\ rpc' = "insert_end"
            /\ UNCHANGED <<rerr, lockOwner>>
       ELSE /\ Crash("AssertionError")
            /\ UNCHANGED events
    /\ UNCHANGED <<classVars, secjoin_enabled, asn, simPaused, goOn, startCb, endCb,
                   pauseSem, ctlVars, histVars>>

\* run(): the insert of the end-of-simulation event.
RunInsertEnd ==
    /\ initFlag
    /\ rpc = "insert_end"
    /\ lockOwner = "none"
    /\ events' = InsertEvent(events, Event(TotalSlots, 0, "_actionEndSim", EndTag, nsched + 1))
    /\ nsched' = nsched + 1
    /\ rpc' = "startcb"
    /\ UNCHANGED <<classVars, secjoin_enabled, asn, simPaused, goOn, startCb, endCb,
                   pauseSem, lockOwner, rerr, ctlVars, quota, dispatched, invoked,
                   pauseAccepted, lastCall, generation, destroyed>>

\* run(): "for cb in self.startCb: cb()"
RunStartHooks ==
    /\ initFlag
    /\ rpc = "startcb"
    /\ invoked' = invoked \o HooksCalled("start", startCb)
    /\ rpc' = "loop"
    /\ UNCHANGED <<classVars, engineVars, lockOwner, rerr, ctlVars, nsched, quota, dispatched,
                   pauseAccepted, lastCall, generation, destroyed>>

\* run(): "if c[1] != '_actionPauseSim'" guards the monotonicity assertion.
MustBeInFuture(tag) == tag[2] # "_actionPauseSim"

\* run(): "while self.goOn"
KeepsGoing == goOn

\* run(): one turn of "while self.goOn" up to the update of the ASN.
RunLoop ==
    /\ initFlag
    /\ rpc = "loop"
    /\ IF ~KeepsGoing
       THEN /\ rpc' = "endcb"
            /\ UNCHANGED <<asn, lockOwner, rerr>>
       ELSE /\ lockOwner = "none"
            /\ IF events = <<>>
               THEN /\ rpc' = "endcb"
                    /\ UNCHANGED <<asn, lockOwner, rerr>>
               ELSE IF Len(events[1].uniqueTag) < 2
               THEN /\ Crash("TypeError")
                    /\ UNCHANGED asn
               ELSE IF MustBeInFuture(events[1].uniqueTag) /\ ~(events[1].asn >= asn)
               THEN /\ Crash("AssertionError")
                    /\ UNCHANGED asn
               ELSE /\ asn' = events[1].asn
                    /\ rpc' = "batch"
                    /\ lockOwner' = "run"
                    /\ UNCHANGED rerr
    /\ UNCHANGED <<classVars, secjoin_enabled, events, simPaused, goOn, startCb, endCb,
                   pauseSem, ctlVars, histVars>>

\* run(): the batch ends at "if self.events[0][0] != self.asn: break"
InBatch(e) == e.asn = asn

\* Mutant of EndSimGoOn: _actionEndSim leaves the flag.
EndSimGoOnKept == goOn

\* _actionEndSim: self.goOn = False
EndSimGoOn == FALSE

\* The callback of a collaborator's event, run by the run-loop thread inside the
\* batch (dataLock is held, and is reentrant): at most one call of a scheduling
\* method.  An exception of the call ends the thread.
UserCallback(call, rest) ==
    IF call.op = "none"
    THEN /\ events' = rest
         /\ UNCHANGED <<goOn, simPaused, rpc, rerr, lockOwner, nsched, quota>>
    ELSE IF call.op = "removeEvent"
    THEN /\ events' = RemoveEvent(rest, call.uniqueTag, call.exceptCurrentASN, asn)
         /\ UNCHANGED <<goOn, simPaused, rpc, rerr, lockOwner, nsched, quota>>
    ELSE /\ quota > 0
         /\ TargetAsn(call, asn) <= MaxAsn
         /\ IF PassesAssert(TargetAsn(call, asn), asn)
            THEN /\ events' = Scheduled(rest, asn, call, nsched + 1)
                 /\ nsched' = nsched + 1
                 /\ quota' = quota - 1
                 /\ UNCHANGED <<goOn, simPaused, rpc, rerr, lockOwner>>
            ELSE /\ events' = rest
                 /\ Crash("AssertionError")
                 /\ UNCHANGED <<goOn, simPaused, nsched, quota>>

\* run(): one turn of the inner "while True": the end of the batch, or the pop
\* and the invocation of the next event of the batch.
RunBatch ==
    /\ initFlag
    /\ rpc = "batch"
    /\ IF events = <<>>
       THEN /\ Crash("IndexError")
            /\ UNCHANGED <<events, goOn, simPaused, nsched, quota, dispatched>>
       ELSE IF ~InBatch(events[1])
       THEN /\ rpc' = "loop"
            /\ lockOwner' = "none"
            /\ UNCHANGED <<events, goOn, simPaused, rerr, nsched, quota, dispatched>>
       ELSE /\ dispatched' = Append(dispatched, Dispatched(events[1]))
            /\ IF events[1].cb = "_actionEndSim"
               THEN /\ goOn' = EndSimGoOn
                    /\ events' = Tail(events)
                    /\ UNCHANGED <<simPaused, rpc, rerr, lockOwner, nsched, quota>>
               ELSE IF events[1].cb = "_actionPauseSim"
               THEN /\ events' = Tail(events)
                    /\ IF ~simPaused
                       THEN /\ simPaused' = TRUE
                            /\ rpc' = "acquire"
                       ELSE UNCHANGED <<simPaused, rpc>>
                    /\ UNCHANGED <<goOn, rerr, lockOwner, nsched, quota>>
               ELSE \E call \in CallbackCalls : UserCallback(call, Tail(events))
    /\ UNCHANGED <<classVars, secjoin_enabled, asn, startCb, endCb, pauseSem, ctlVars,
                   invoked, pauseAccepted, lastCall, generation, destroyed>>

\* _actionPauseSim: self.pauseSem.acquire() returns once the semaphore is positive.
RunAcquire ==
    /\ initFlag
    /\ rpc = "acquire"
    /\ pauseSem > 0
    /\ pauseSem' = pauseSem - 1
    /\ rpc' = "batch"
    /\ UNCHANGED <<classVars, secjoin_enabled, asn, events, simPaused, goOn, startCb, endCb,
                   lockOwner, rerr, ctlVars, histVars>>

\* run(): "for cb in self.endCb: cb()", then the thread ends.
RunEndHooks ==
    /\ initFlag
    /\ rpc = "endcb"
    /\ invoked' = invoked \o HooksCalled("end", endCb)
    /\ rpc' = "done"
    /\ UNCHANGED <<classVars, engineVars, lockOwner, rerr, ctlVars, nsched, quota, dispatched,
                   pauseAccepted, lastCall, generation, destroyed>>

RunThread ==
    \/ RunStart
    \/ RunInsertEnd
    \/ RunStartHooks
    \/ RunLoop
    \/ RunBatch
    \/ RunAcquire
    \/ RunEndHooks

\* ------------------------------------------------------------ calls run to completion

Min(a, b) == IF a < b THEN a ELSE b

\* The least A of the pauses accepted since the last play(), with A added.
PauseAcceptedWith(a) == IF pauseAccepted = -1 THEN a ELSE Min(pauseAccepted, a)

SchedulingCalls ==
    {c \in ScheduleAtAsnCalls : c.exceptCurrentASN \in ExceptChoices(c.uniqueTag)}
        \cup ScheduleInCalls \cup TerminateCalls \cup PauseCalls

\* run() is not in the middle of its own scheduleAtAsn call.
NoCallInProgress == rpc # "insert_end"

\* scheduleAtAsn, scheduleIn, terminateSimulation or pauseAtAsn, called from a
\* thread other than the run loop's while dataLock is free and no other call
\* is in progress.
SeqSchedule(call) ==
    /\ initFlag
    /\ NoCallInProgress
    /\ quota > 0
    /\ TargetAsn(call, asn) <= MaxAsn
    /\ IF call.op = "pauseAtAsn" /\ simPaused
       THEN /\ lastCall' = Returned(call.op, TargetAsn(call, asn) > asn, "ignored")
            /\ UNCHANGED <<events, nsched, quota, pauseAccepted>>
       ELSE IF PassesAssert(TargetAsn(call, asn), asn)
       THEN /\ lockOwner = "none"
            /\ events' = Scheduled(events, asn, call, nsched + 1)
            /\ nsched' = nsched + 1
            /\ quota' = quota - 1
            /\ lastCall' = Returned(call.op, TargetAsn(call, asn) > asn, "none")
            /\ pauseAccepted' = IF call.op = "pauseAtAsn"
                                THEN PauseAcceptedWith(call.asn)
                                ELSE pauseAccepted
       ELSE /\ lastCall' = Returned(call.op, TargetAsn(call, asn) > asn, "AssertionError")
            /\ UNCHANGED <<events, nsched, quota, pauseAccepted>>
    /\ UNCHANGED <<classVars, secjoin_enabled, asn, simPaused, goOn, startCb, endCb,
                   pauseSem, runVars, ctlVars, dispatched, invoked, generation, destroyed>>

\* How a removeEvent call ended, with its arguments.
Removed(call) ==
    [op |-> call.op, future |-> TRUE, err |-> "none", uniqueTag |-> call.uniqueTag,
     exceptCurrentASN |-> call.exceptCurrentASN]

\* removeEvent(uniqueTag, exceptCurrentASN)
SeqRemoveEvent(call) ==
    /\ initFlag
    /\ NoCallInProgress
    /\ lockOwner = "none"
    /\ events' = RemoveEvent(events, call.uniqueTag, call.exceptCurrentASN, asn)
    /\ lastCall' = Removed(call)
    /\ UNCHANGED <<classVars, secjoin_enabled, asn, simPaused, goOn, startCb, endCb,
                   pauseSem, runVars, ctlVars, nsched, quota, dispatched, invoked, pauseAccepted,
                   generation, destroyed>>

\* scheduleAtStart(cb)
SeqScheduleAtStart(h) ==
    /\ initFlag
    /\ lockOwner = "none"
    /\ Len(startCb) < MaxHooks
    /\ startCb' = startCb \o <<h>>
    /\ lastCall' = Returned("scheduleAtStart", TRUE, "none")
    /\ UNCHANGED <<classVars, secjoin_enabled, asn, events, simPaused, goOn, endCb,
                   pauseSem, runVars, ctlVars, nsched, quota, dispatched, invoked, pauseAccepted,
                   generation, destroyed>>

\* scheduleAtEnd(cb)
SeqScheduleAtEnd(h) ==
    /\ initFlag
    /\ lockOwner = "none"
    /\ Len(endCb) < MaxHooks
    /\ endCb' = endCb \o <<h>>
    /\ lastCall' = Returned("scheduleAtEnd", TRUE, "none")
    /\ UNCHANGED <<classVars, secjoin_enabled, asn, events, simPaused, goOn, startCb,
                   pauseSem, runVars, ctlVars, nsched, quota, dispatched, invoked, pauseAccepted,
                   generation, destroyed>>

\* play(): _actionResumeSim
SeqPlay ==
    /\ initFlag
    /\ IF simPaused
       THEN /\ simPaused' = FALSE
            /\ pauseSem' = pauseSem + 1
       ELSE UNCHANGED <<simPaused, pauseSem>>
    /\ lastCall' = Returned("play", TRUE, "none")
    /\ pauseAccepted' = -1
    /\ UNCHANGED <<classVars, secjoin_enabled, asn, events, goOn, startCb, endCb,
                   runVars, ctlVars, nsched, quota, dispatched, invoked, generation, destroyed>>

SeqNext ==
    \/ \E call \in SchedulingCalls : SeqSchedule(call)
    \/ \E call \in RemoveEventCalls : SeqRemoveEvent(call)
    \/ SeqPlay
    \/ RunThread

SeqSpec == InitSeq /\ [][SeqNext]_vars

\* The calls LifeSpec's caller makes between construction and destruction.
LifeCalls ==
    {c \in SchedulingCalls : c.priority = 0 /\ c.op # "scheduleIn"
                             /\ c.uniqueTag # NoTag /\ c.exceptCurrentASN}

\* The hooks LifeSpec's caller registers.
LifeHooks == {1}

LifeNext ==
    \/ \E f \in BOOLEAN : Construct(f)
    \/ Destroy
    \/ \E call \in LifeCalls : SeqSchedule(call)
    \/ \E h \in LifeHooks : SeqScheduleAtStart(h)
    \/ \E h \in LifeHooks : SeqScheduleAtEnd(h)
    \/ SeqPlay
    \/ RunThread

LifeSpec == InitProc /\ [][LifeNext]_vars

\* The queues of up to MaxEvents events of priority 0, tagged or not, numbered
\* in the order of their insertion and sorted as scheduleAtAsn sorts them; the
\* times are those of events scheduled before or at the Clock `now` given.
RemovalQueues(now) ==
    UNION {{q \in [1..n -> [asn : now..MaxAsn, tag : Tags]] :
                \A i \in 1..(n - 1) : q[i].asn <= q[i + 1].asn} : n \in 0..MaxEvents}

\* A constructed engine whose run loop holds no lock, with any Clock and any
\* such queue pending.
InitRemoval ==
    /\ asn \in 0..MaxAsn
    /\ \E q \in RemovalQueues(asn) :
          /\ events = [i \in 1..Len(q) |-> Event(q[i].asn, 0, "cb", q[i].tag, i)]
          /\ nsched = Len(q)
    /\ quota = 0
    /\ instance = TRUE
    /\ initFlag = TRUE
    /\ secjoin_enabled = FALSE
    /\ simPaused = FALSE
    /\ goOn = TRUE
    /\ startCb = <<>>
    /\ endCb = <<>>
    /\ pauseSem = 0
    /\ lockOwner = "none"
    /\ rpc = "loop"
    /\ rerr = "none"
    /\ cpc = [c \in Ctl |-> "idle"]
    /\ carg = [c \in Ctl |-> NoCall]
    /\ dispatched = <<>>
    /\ invoked = <<>>
    /\ pauseAccepted = -1
    /\ lastCall = Returned(ConstructOp(FALSE), TRUE, "none")
    /\ generation = 1
    /\ destroyed = NothingHeld

RemovalNext == \E call \in RemoveEventCalls : SeqRemoveEvent(call)

\* removeEvent applied to every such queue.
RemovalSpec == InitRemoval /\ [][RemovalNext]_vars

\* ------------------------------------------------------------ controller threads

CtlCalls ==
    {c \in ScheduleAtAsnCalls : c.exceptCurrentASN \in ExceptChoices(c.uniqueTag)}
        \cup TerminateCalls \cup PauseCalls

\* scheduleAtAsn, terminateSimulation or pauseAtAsn up to scheduleAtAsn's
\* assertion, which reads self.asn without dataLock.  A call that raises, and a
\* pauseAtAsn while paused, change nothing.
CtlBegin(c, call) ==
    /\ initFlag
    /\ cpc[c] = "idle"
    /\ quota > 0
    /\ TargetAsn(call, asn) <= MaxAsn
    /\ ~(call.op = "pauseAtAsn" /\ simPaused)
    /\ PassesAssert(TargetAsn(call, asn), asn)
    /\ cpc' = [cpc EXCEPT ![c] = IF call.uniqueTag # NoTag THEN "remove" ELSE "insert"]
    /\ carg' = [carg EXCEPT ![c] = [call EXCEPT !.asn = TargetAsn(call, asn)]]
    /\ quota' = quota - 1
    /\ UNCHANGED <<classVars, engineVars, runVars, nsched, dispatched, invoked,
                   pauseAccepted, lastCall, generation, destroyed>>

\* scheduleAtAsn: self.removeEvent(uniqueTag, exceptCurrentASN), under dataLock.
CtlRemove(c) ==
    /\ initFlag
    /\ cpc[c] = "remove"
    /\ lockOwner = "none"
    /\ events' = RemoveEvent(events, carg[c].uniqueTag, carg[c].exceptCurrentASN, asn)
    /\ cpc' = [cpc EXCEPT ![c] = "insert"]
    /\ UNCHANGED <<classVars, secjoin_enabled, asn, simPaused, goOn, startCb, endCb,
                   pauseSem, runVars, carg, histVars>>

\* scheduleAtAsn: the search and the insert, under dataLock; the call returns.
CtlInsert(c) ==
    /\ initFlag
    /\ cpc[c] = "insert"
    /\ lockOwner = "none"
    /\ events' = InsertEvent(events, Event(carg[c].asn, carg[c].priority, CallbackOf(carg[c]),
                                           carg[c].uniqueTag, nsched + 1))
    /\ nsched' = nsched + 1
    /\ pauseAccepted' = IF carg[c].op = "pauseAtAsn"
                        THEN PauseAcceptedWith(carg[c].asn)
                        ELSE pauseAccepted
    /\ cpc' = [cpc EXCEPT ![c] = "idle"]
    /\ carg' = [carg EXCEPT ![c] = NoCall]
    /\ UNCHANGED <<classVars, secjoin_enabled, asn, simPaused, goOn, startCb, endCb,
                   pauseSem, runVars, quota, dispatched, invoked, lastCall, generation, destroyed>>

\* scheduleIn: the whole call holds dataLock.  A call that raises changes nothing.
CtlScheduleIn(c, call) ==
    /\ initFlag
    /\ cpc[c] = "idle"
    /\ lockOwner = "none"
    /\ quota > 0
    /\ TargetAsn(call, asn) <= MaxAsn
    /\ PassesAssert(TargetAsn(call, asn), asn)
    /\ events' = Scheduled(events, asn, call, nsched + 1)
    /\ nsched' = nsched + 1
    /\ quota' = quota - 1
    /\ UNCHANGED <<classVars, secjoin_enabled, asn, simPaused, goOn, startCb, endCb,
                   pauseSem, runVars, ctlVars, dispatched, invoked, pauseAccepted, lastCall,
                   generation, destroyed>>

\* removeEvent, under dataLock.
CtlRemoveEvent(c, call) ==
    /\ initFlag
    /\ cpc[c] = "idle"
    /\ lockOwner = "none"
    /\ events' = RemoveEvent(events, call.uniqueTag, call.exceptCurrentASN, asn)
    /\ UNCHANGED <<classVars, secjoin_enabled, asn, simPaused, goOn, startCb, endCb,
                   pauseSem, runVars, ctlVars, histVars>>

\* play(): _actionResumeSim's test "if self.simPaused", without dataLock.
CtlPlay(c) ==
    /\ initFlag
    /\ cpc[c] = "idle"
    /\ cpc' = [cpc EXCEPT ![c] = IF simPaused THEN "resume" ELSE "idle"]
    /\ pauseAccepted' = -1
    /\ UNCHANGED <<classVars, engineVars, runVars, carg, nsched, quota, dispatched, invoked,
                   lastCall, generation, destroyed>>

\* _actionResumeSim: self.simPaused = False; self.pauseSem.release()
CtlResume(c) ==
    /\ initFlag
    /\ cpc[c] = "resume"
    /\ simPaused' = FALSE
    /\ pauseSem' = pauseSem + 1
    /\ cpc' = [cpc EXCEPT ![c] = "idle"]
    /\ UNCHANGED <<classVars, secjoin_enabled, asn, events, goOn, startCb, endCb,
                   runVars, carg, histVars>>

Next ==
    \/ \E c \in Ctl : \E call \in CtlCalls : CtlBegin(c, call)
    \/ \E c \in Ctl : CtlRemove(c)
    \/ \E c \in Ctl : CtlInsert(c)
    \/ \E c \in Ctl : \E call \in ScheduleInCalls : CtlScheduleIn(c, call)
    \/ \E c \in Ctl : \E call \in RemoveEventCalls : CtlRemoveEvent(c, call)
    \/ \E c \in Ctl : CtlPlay(c)
    \/ \E c \in Ctl : CtlResume(c)
    \/ RunThread

Spec == Init /\ [][Next]_vars

\* ------------------------------------------------------------ properties

Indices(q) == 1..Len(q)

\* (time, priority, insertion order) of a before that of b.
KeyBefore(a, b) ==
    \/ a.asn < b.asn
    \/ a.asn = b.asn /\ a.priority < b.priority
    \/ a.asn = b.asn /\ a.priority = b.priority /\ a.kwargs < b.kwargs

\* C1: between the steps of the scheduling and removal calls of callbacks and
\* controller threads, the pending events are sorted by time, then priority,
\* then insertion order.
C1_QueueSorted ==
    \A i, j \in Indices(events) : i < j => KeyBefore(events[i], events[j])

\* C1 witness: three pending events of one time, two of them of one priority.
C1_Witness ==
    /\ Len(events) = 3
    /\ events[1].asn = events[3].asn
    /\ events[1].priority = events[2].priority
    /\ events[2].priority < events[3].priority

SchedulingOps == {"scheduleAtAsn", "scheduleIn", "terminateSimulation", "pauseAtAsn"}

\* C2: a call that reaches scheduleAtAsn with a time X <= Clock ends with the
\* failed assertion and leaves the queue as it was.
C2_PastIsRefused ==
    [][(lastCall'.op \in SchedulingOps /\ ~lastCall'.future /\ lastCall'.err # "ignored")
          => /\ lastCall'.err = "AssertionError"
             /\ lastCall' # lastCall => events' = events
      ]_vars

\* C2 witness: scheduleAtAsn has been refused while the Clock was past 0.
C2_Witness ==
    /\ lastCall = Returned("scheduleAtAsn", FALSE, "AssertionError")
    /\ asn > 0
    /\ events # <<>>

ReservedTags == {EndTag, PauseTag}

\* C3: for each non-empty tag, at most one pending event with that tag has a
\* time different from the current Clock.
C3_OnePendingPerTag ==
    \A tag \in UserTags \cup ReservedTags :
        Cardinality({i \in Indices(events) :
                        events[i].uniqueTag = tag /\ events[i].asn # asn}) <= 1

\* C4: the events are invoked in increasing order of time, each one while the
\* Clock equals its time.
C4_DispatchInTimeOrder ==
    /\ \A i \in Indices(dispatched) : dispatched[i].clock = dispatched[i].asn
    /\ \A i, j \in Indices(dispatched) : i < j => dispatched[i].asn <= dispatched[j].asn

\* C4 witness: events of times 1 < 2 < 3 invoked in that order, not the order
\* in which they were scheduled.
C4_Witness ==
    /\ Len(dispatched) = 3
    /\ \A i \in 1..3 : dispatched[i].asn = i /\ dispatched[i].clock = i
    /\ dispatched[1].kwargs > dispatched[2].kwargs

\* C5: the events of one time are invoked in ascending priority, those of one
\* time and priority in the order in which they were scheduled.
C5_DispatchInPriorityOrder ==
    \A i, j \in Indices(dispatched) :
        (i < j /\ dispatched[i].asn = dispatched[j].asn) =>
            \/ dispatched[i].priority < dispatched[j].priority
            \/ /\ dispatched[i].priority = dispatched[j].priority
               /\ dispatched[i].kwargs < dispatched[j].kwargs

\* C5 witness: the example of the specification with the times 2 and 3: from
\* Clock 0, (3,0), (3,1), (2,0) are scheduled in this order and (2,0), (3,0),
\* (3,1) are invoked, with the Clock at 2, 3, 3.
C5_Witness ==
    /\ Len(dispatched) = 3
    /\ dispatched[1].asn = 2 /\ dispatched[1].priority = 0 /\ dispatched[1].kwargs = 3
    /\ dispatched[2].asn = 3 /\ dispatched[2].priority = 0 /\ dispatched[2].kwargs = 1
    /\ dispatched[3].asn = 3 /\ dispatched[3].priority = 1 /\ dispatched[3].kwargs = 2
    /\ dispatched[1].clock = 2 /\ dispatched[2].clock = 3 /\ dispatched[3].clock = 3

\* C6: after pauseAtAsn(A) has returned, no event of a collaborator or of
\* terminateSimulation with a time after A is invoked until play() is called.
C6_NoDispatchPastPause ==
    [][(Len(dispatched') > Len(dispatched) /\ pauseAccepted >= 0) =>
          \/ dispatched'[Len(dispatched')].cb = "_actionPauseSim"
          \/ dispatched'[Len(dispatched')].asn <= pauseAccepted
      ]_vars

\* C7: once the end-of-simulation event has been invoked at time T, goOn is
\* false, the Clock stays at T and no event with a time after T is invoked.
C7_NothingPastEnd ==
    \A i \in Indices(dispatched) :
        dispatched[i].cb = "_actionEndSim" =>
            /\ ~goOn
            /\ asn = dispatched[i].asn
            /\ \A j \in Indices(dispatched) : i < j => dispatched[j].asn <= dispatched[i].asn

\* C7 witness: the run has ended on the event of terminateSimulation (no
\* end of simulation is scheduled by run() here) with a later event pending.
C7_Witness ==
    /\ secjoin_enabled
    /\ rpc = "done"
    /\ events # <<>>
    /\ \E i \in Indices(dispatched) :
          dispatched[i].cb = "_actionEndSim" /\ events[1].asn > dispatched[i].asn

ConstructOps == {ConstructOp(FALSE), ConstructOp(TRUE)}

FreshEngine ==
    /\ initFlag
    /\ asn = 0
    /\ events = <<>>
    /\ startCb = <<>>
    /\ endCb = <<>>
    /\ goOn
    /\ ~simPaused

\* C8: a construction that follows destroy() yields an engine with Clock 0, an
\* empty queue, no hooks, goOn true and simPaused false, whatever the destroyed
\* instance held.
C8_FreshAfterDestroy ==
    [][(lastCall.op = "destroy" /\ lastCall'.op = ConstructOp(FALSE)) => FreshEngine']_vars

\* C8 witness: the second initialisation of the singleton has taken place on
\* an instance that was destroyed past Clock 0, with pending events and hooks,
\* paused or stopped.
C8_Witness ==
    /\ generation = 2
    /\ lastCall = Returned(ConstructOp(FALSE), TRUE, "none")
    /\ FreshEngine
    /\ destroyed

\* C9: a construction call on the initialised singleton returns the instance of
\* the slot and changes nothing of the engine; __init__ is not run again.
C9_ConstructIsIdempotent ==
    [][(initFlag /\ lastCall' # lastCall /\ lastCall'.op \in ConstructOps) =>
          /\ lastCall'.err = "none"
          /\ instance /\ instance'
          /\ UNCHANGED <<initFlag, engineVars, runVars, generation>>
      ]_vars

\* C9 witness: the last call is a construction, made after a start hook was
\* registered on the one instance ever initialised, and the hook is still there.
C9_Witness ==
    /\ lastCall = Returned(ConstructOp(FALSE), TRUE, "none")
    /\ generation = 1
    /\ startCb # <<>>
    /\ asn > 0

\* C10: SimEngine(failIfNotInit=True) raises EnvironmentError, and initialises
\* nothing, whenever the singleton is not initialised.
C10_RequireExistingFails ==
    [][(~initFlag /\ lastCall' # lastCall /\ lastCall'.op = ConstructOp(TRUE)) =>
          /\ lastCall'.err = "EnvironmentError"
          /\ ~initFlag'
          /\ UNCHANGED <<engineVars, generation>>
      ]_vars

\* C10 witness: the call has failed after destroy().
C10_Witness ==
    /\ generation = 1
    /\ ~initFlag
    /\ lastCall = Returned(ConstructOp(TRUE), TRUE, "EnvironmentError")

\* C11: the run-loop thread never dies of an error for having emptied the
\* queue: once the last pending event has been invoked and nothing further is
\* scheduled, the loop stops normally (and goes on to the end hooks).
C11_ExhaustionIsNormal ==
    ~(rpc = "crashed" /\ rerr = "IndexError" /\ events = <<>>)

\* C12: no step sets the Clock to a value smaller than the one it had.
C12_ClockMonotonic ==
    [][asn' >= asn]_vars

\* C13: every event that a step puts into the queue has a time strictly
\* greater than the Clock at that step, and every pending event has a time not
\* before the Clock.
C13_InsertedInFuture ==
    [][/\ \A i \in Indices(events') :
              (\A j \in Indices(events) : events[j] # events'[i]) => events'[i].asn > asn
       /\ \A i \in Indices(events') : events'[i].asn >= asn'
      ]_vars

\* The hooks of one phase that run() has invoked, in the order of invocation.
HooksInvoked(phase) == SelectSeq(invoked, LAMBDA r : r.phase = phase)

\* The loop of run() has stopped: by goOn, by the empty queue found at the top
\* of a turn, or by the queue emptied inside a batch.
LoopStopped == rpc = "done" \/ (rpc = "crashed" /\ rerr = "IndexError")

\* C14: when run() goes from the start hooks to the loop, every registered
\* start hook has been invoked, in registration order, and no event has been
\* invoked yet; when the loop has stopped, every registered end hook has been
\* invoked, in registration order, after the last invocation of an event.
C14_HooksInOrder ==
    [][/\ (rpc = "startcb" /\ rpc' # "startcb") =>
              /\ HooksInvoked("start")' = HooksCalled("start", startCb)
              /\ dispatched = <<>>
       /\ (~LoopStopped /\ LoopStopped') =>
              HooksInvoked("end")' = HooksCalled("end", endCb)
      ]_vars

\* C15: while the run loop is blocked in the pause event's callback, no pending
\* event has the time of that pause event, which is the Clock.
C15_PauseAfterBatch ==
    rpc = "acquire" => \A i \in Indices(events) : events[i].asn # asn

\* The times of the pending pause events of a queue.
PauseTimes(q) ==
    LET ps == SelectSeq(q, LAMBDA e : e.cb = "_actionPauseSim")
    IN  [i \in 1..Len(ps) |-> ps[i].asn]

\* C16: at most one pause event is pending, and while one is pending or the
\* engine is paused no step puts a pause event into the queue or moves the
\* pending one to another time: the pending pause stays where it is until the
\* run loop takes it out.
C16_PauseIsNoOpWhenPending ==
    [][/\ Len(PauseTimes(events')) <= 1
       /\ (PauseTimes(events) # <<>> \/ simPaused) =>
              PauseTimes(events') \in {PauseTimes(events), <<>>}
      ]_vars

\* C17: the gate has been signalled at most as often as the run loop has
\* entered the paused state.  The signals not yet consumed are the value of
\* pauseSem and the pauses not yet resumed are the one the thread is blocked in,
\* so: pauseSem is 0, or 1 while the run loop waits in pauseSem.acquire().
C17_GateSignalledOnce ==
    pauseSem <= IF rpc = "acquire" THEN 1 ELSE 0

\* removeEvent(uniqueTag, exceptCurrentASN) is to leave the event e pending.
Remains(e, uniqueTag, exceptCurrentASN) ==
    e.uniqueTag # uniqueTag \/ (exceptCurrentASN /\ e.asn = asn)

\* C18: a removeEvent call leaves pending exactly the events with another tag
\* and, when exceptCurrentASN, the events of the tag at the current Clock, in
\* the order they were in.
C18_RemoveEventFrame ==
    [][(lastCall'.op = "removeEvent" /\ UNCHANGED <<rpc, dispatched>>) =>
          /\ \A i \in Indices(events') :
                Remains(events'[i], lastCall'.uniqueTag, lastCall'.exceptCurrentASN)
          /\ events' = SelectSeq(events, LAMBDA e :
                Remains(e, lastCall'.uniqueTag, lastCall'.exceptCurrentASN))
      ]_vars

\* C18 witness: removeEvent(tag, True) has removed the second of three events,
\* which had the tag and a later time, and has left the first, which has the tag
\* and the time of the Clock, and the third, which has no tag.
C18_Witness ==
    /\ lastCall.op = "removeEvent"
    /\ lastCall.exceptCurrentASN
    /\ nsched = 3
    /\ Len(events) = 2
    /\ events[1].uniqueTag = lastCall.uniqueTag /\ events[1].asn = asn /\ events[1].kwargs = 1
    /\ events[2].uniqueTag = NoTag /\ events[2].kwargs = 3

\* C19: the class slot is empty or the object it holds is initialised.
C19_SlotEmptyOrInitialised ==
    instance => initFlag

\* The events that are pending or were invoked.
Known == events \o dispatched

\* No pause and no forced end was scheduled: the only end-of-simulation event
\* is the one run() inserts.
AutoEndOnly ==
    /\ ~secjoin_enabled
    /\ \A i \in Indices(Known) :
          /\ Known[i].cb # "_actionPauseSim"
          /\ Known[i].cb = "_actionEndSim" => Known[i].asn = TotalSlots

\* A scheduling call made by a collaborator's callback was refused.
CallbackRaised == rpc = "crashed" /\ rerr = "AssertionError"

\* C20: with the end of the simulation scheduled by run() alone, the run loop
\* does not die of an error of its own, and the run ends at Clock TotalSlots
\* with no event of a later time invoked.
C20_EndsAtTotalSlots ==
    AutoEndOnly =>
        /\ rpc = "crashed" => CallbackRaised
        /\ rpc = "done" => /\ asn = TotalSlots
                           /\ \A i \in Indices(dispatched) : dispatched[i].asn <= TotalSlots

\* The times of the pending end-of-simulation events, in queue order.
EndTimes(q) ==
    LET es == SelectSeq(q, LAMBDA e : e.cb = "_actionEndSim")
    IN  [i \in 1..Len(es) |-> es[i].asn]

\* The step is the return of a terminateSimulation call, made by a controller
\* or by a callback, that inserted event i of the new queue: the event is
\* new, it is an end-of-simulation event, and it is not the one run() inserts.
ForcedEndAt(i) ==
    /\ rpc # "insert_end"
    /\ nsched' = nsched + 1
    /\ events'[i].kwargs = nsched'
    /\ events'[i].cb = "_actionEndSim"

\* C21: when terminateSimulation(delay) returns, the end-of-simulation event it
\* inserted is later than the Clock by one of the delays and is the only
\* end-of-simulation event pending.
C21_ForcedEndSupersedes ==
    [][\A i \in Indices(events') :
          ForcedEndAt(i) =>
              /\ events'[i].asn - asn' \in {c.delay : c \in TerminateCalls} \ {0}
              /\ EndTimes(events') = <<events'[i].asn>>
      ]_vars

\* The step pops event e and invokes its callback.
Invokes(e) ==
    /\ Len(dispatched') = Len(dispatched) + 1
    /\ dispatched'[Len(dispatched')].kwargs = e.kwargs

\* No step takes a pending event without a tag out of the queue other than by
\* invoking it.
UntaggedKept ==
    \A i \in Indices(events) :
        events[i].uniqueTag = NoTag =>
            \/ \E j \in Indices(events') : events'[j] = events[i]
            \/ Invokes(events[i])

\* C22: an event scheduled without a tag stays pending until the run loop
\* invokes it, whatever else is scheduled, and the run loop does not fault on
\* the missing tag when the event is the earliest one pending.
C22_TagIsOptional ==
    [][UntaggedKept /\ rerr' # "TypeError"]_vars

\* The run loop waits in pauseSem.acquire() and no play() has signalled it.
BlockedOnGate == rpc = "acquire" /\ pauseSem = 0

\* The call controller c is in can take its next step.
CanProceed(c) ==
    /\ cpc[c] = "remove" => ENABLED CtlRemove(c)
    /\ cpc[c] = "insert" => ENABLED CtlInsert(c)

\* C23: while the run loop is blocked on the pause gate, the scheduling call a
\* controller thread is in can go on without a play().
C23_CallsCompleteWhilePaused ==
    BlockedOnGate => \A c \in Ctl : CanProceed(c)

====
